---------------------------- MODULE Spec2Model ----------------------------
(***************************************************************************)
(* A model of the indycar-calendar pipeline: the session grouping and      *)
(* classification of indycar_schedule.py, the schedule builder, and the    *)
(* change reconciliation and update run of update.py / sportstimes.py.     *)
(*                                                                         *)
(* Text (titles, names, session keys) is a sequence of one-character       *)
(* strings, so that lower(), substring tests, f-string formatting and the  *)
(* slug are computed character by character.  Instants are integers in     *)
(* ticks of 30 minutes.                                                    *)
(***************************************************************************)
EXTENDS Integers, Sequences, FiniteSets, TLC

VARIABLES
    (* grouping pass *)
    gPc, gInput, gQuali, gRaces, gReQuali, gReRaces,
    (* parse_race_details on one race of the HTML path *)
    pPc, pSessions, pCleaned, pDetails,
    (* build_output on a list of race records *)
    bPc, bRaces, bOutput,
    (* reconciliation of a persisted and a fresh schedule document *)
    rPc, rOld, rNew, rReconciled, rReturn, rFile,
    (* one run of sportstimes.main *)
    uPc, uEvents, uExisted, uFile, uBackup, uDebug, uYear, uCaller, uBuilder, uIdx, uRaces,
    uCalls, uOld, uNew, uReturn, uWrites, uPublished,
    (* get_race_details_from_matchup_url on the schedule items of one event *)
    mPc, mIdMap, mItems, mDetails

gVars == <<gPc, gInput, gQuali, gRaces, gReQuali, gReRaces>>
pVars == <<pPc, pSessions, pCleaned, pDetails>>
bVars == <<bPc, bRaces, bOutput>>
rVars == <<rPc, rOld, rNew, rReconciled, rReturn, rFile>>
uVars == <<uPc, uEvents, uExisted, uFile, uBackup, uDebug, uYear, uCaller, uBuilder, uIdx, uRaces,
           uCalls, uOld, uNew, uReturn, uWrites, uPublished>>

mVars == <<mPc, mIdMap, mItems, mDetails>>

vars == <<gVars, pVars, bVars, rVars, uVars, mVars>>

-----------------------------------------------------------------------------
(* Each specification below runs one part of the program; the variables of  *)
(* the other parts rest at these values.                                    *)

Raised == [raised |-> TRUE]

GIdle ==
    /\ gPc = "idle"
    /\ gInput = <<>>
    /\ gQuali = <<>>
    /\ gRaces = <<>>
    /\ gReQuali = <<>>
    /\ gReRaces = <<>>

PIdle ==
    /\ pPc = "idle"
    /\ pSessions = <<>>
    /\ pCleaned = <<>>
    /\ pDetails = Raised

BIdle ==
    /\ bPc = "idle"
    /\ bRaces = <<>>
    /\ bOutput = [races |-> <<>>]

RIdle ==
    /\ rPc = "idle"
    /\ rOld = [races |-> <<>>]
    /\ rNew = [races |-> <<>>]
    /\ rReconciled = Raised
    /\ rReturn = "pending"
    /\ rFile = [races |-> <<>>]

\* no file at the path
Absent == [exists |-> FALSE, doc |-> [races |-> <<>>]]

\* no file at the backup path; copies counts the times shutil.copy2 wrote it
NoBackup == [exists |-> FALSE, doc |-> [races |-> <<>>], readonly |-> FALSE, copies |-> 0]

UIdle ==
    /\ uPc = "idle"
    /\ uEvents = <<>>
    /\ uExisted = FALSE
    /\ uFile = Absent
    /\ uBackup = NoBackup
    /\ uDebug = "unset"
    /\ uYear = "current"
    /\ uCaller = "none"
    /\ uBuilder = "none"
    /\ uIdx = 1
    /\ uRaces = <<>>
    /\ uCalls = <<>>
    /\ uOld = [races |-> <<>>]
    /\ uNew = [races |-> <<>>]
    /\ uReturn = "pending"
    /\ uWrites = 0
    /\ uPublished = FALSE

MIdle ==
    /\ mPc = "idle"
    /\ mIdMap = <<>>
    /\ mItems = <<>>
    /\ mDetails = Raised

-----------------------------------------------------------------------------
(* Bounds of the model *)

\* longest list handed to the grouping pass
MaxEntries == 3
\* latest tick of an entry handed to the grouping pass
MaxTick == 4
\* most raw session entries of one race
MaxSessions == 2
\* latest tick of a raw session entry
MaxSessionTick == 2
\* most race records handed to build_output
MaxRaces == 3
\* most races of a schedule document handed to the reconciliation
MaxDocRaces == 2
\* most events of the season listed upstream in one run
MaxEvents == 2
\* most schedule items of one event of the JSON source
MaxItems == 3
\* latest tick of a schedule item's eventTime
MaxItemTick == 2

(* Program constants *)

\* datetime.timedelta(hours=1), in ticks of 30 minutes
Hour == 2

-----------------------------------------------------------------------------
(* Text helpers *)

Range(s) == {s[i] : i \in 1..Len(s)}

\* str(n) for a natural number n
RECURSIVE Digits(_)
Digits(n) ==
    LET d == <<"0", "1", "2", "3", "4", "5", "6", "7", "8", "9">>
    IN  IF n < 10 THEN <<d[n + 1]>> ELSE Digits(n \div 10) \o <<d[(n % 10) + 1]>>

\* str.lower() on the letters
LowerChar(c) ==
    LET up == <<"A", "B", "C", "D", "E", "F", "G", "H", "I", "J", "K", "L", "M",
                "N", "O", "P", "Q", "R", "S", "T", "U", "V", "W", "X", "Y", "Z">>
        lo == <<"a", "b", "c", "d", "e", "f", "g", "h", "i", "j", "k", "l", "m",
                "n", "o", "p", "q", "r", "s", "t", "u", "v", "w", "x", "y", "z">>
    IN  IF \E i \in 1..26 : up[i] = c THEN lo[CHOOSE i \in 1..26 : up[i] = c] ELSE c

Lower(s) == [i \in 1..Len(s) |-> LowerChar(s[i])]

\* sub in s
Contains(sub, s) ==
    \E i \in 1..(Len(s) - Len(sub) + 1) : SubSeq(s, i, i + Len(sub) - 1) = sub

\* f'{n:02d}'
TwoDigits(n) == IF n < 10 THEN <<"0">> \o Digits(n) ELSE Digits(n)

kPractice == <<"p", "r", "a", "c", "t", "i", "c", "e">>
kWarmup == <<"w", "a", "r", "m", "u", "p">>
kQuali == <<"q", "u", "a", "l", "i">>
kQualifying == <<"q", "u", "a", "l", "i", "f", "y", "i", "n", "g">>
kRace == <<"r", "a", "c", "e">>
tQualifying == <<"Q", "u", "a", "l", "i", "f", "y", "i", "n", "g">>
tRace == <<"R", "a", "c", "e">>

-----------------------------------------------------------------------------
(* group_qualifying / group_races *)

\* (mutant) a gap of exactly one hour still merges
GapMergesInclusive(prev, cur) == cur.start_dt - prev.end_dt <= Hour

\* the test of line 48 / 73 on entry i > 1 of the list (1-based here)
GapMerges(prev, cur) == cur.start_dt - prev.end_dt < Hour

\* grouped.get(group_number, qualis[i-1])['start_dt']
GroupStart(grouped, group_number, prev) ==
    IF group_number \in 1..Len(grouped) THEN grouped[group_number].start_dt
    ELSE prev.start_dt

\* (mutant) the group's end only ever advances: the latest end of its members
GroupEndLatest(grouped, group_number, cur) ==
    IF group_number \in 1..Len(grouped) /\ grouped[group_number].end_dt > cur.end_dt
    THEN grouped[group_number].end_dt
    ELSE cur.end_dt

\* end_dt = qualis[i]['end_dt']: the entry's own end
GroupEnd(grouped, group_number, cur) == cur.end_dt

\* grouped.update({group_number: ...}): overwrite the group or append it
GroupedUpdate(grouped, group_number, g) ==
    IF group_number \in 1..Len(grouped) THEN [grouped EXCEPT ![group_number] = g]
    ELSE Append(grouped, g)

RECURSIVE GroupLoop(_, _, _, _, _)
GroupLoop(prefix, xs, i, grouped, group_number) ==
    IF i > Len(xs) THEN grouped
    ELSE LET merges == i > 1 /\ GapMerges(xs[i - 1], xs[i])
             gn == IF merges THEN group_number ELSE group_number + 1
             start_dt == IF merges THEN GroupStart(grouped, group_number, xs[i - 1])
                         ELSE xs[i].start_dt
             g == [session_key |-> prefix \o Digits(gn),
                   start_dt |-> start_dt,
                   end_dt |-> GroupEnd(grouped, gn, xs[i])]
         IN  GroupLoop(prefix, xs, i + 1, GroupedUpdate(grouped, gn, g), gn)

\* lines 60-64 / 85-89: a single group takes the bare key and a title
Collapse(grouped_values, key, title) ==
    IF Len(grouped_values) = 1
    THEN <<[session_key |-> key, title |-> title,
            start_dt |-> grouped_values[1].start_dt,
            end_dt |-> grouped_values[1].end_dt]>>
    ELSE grouped_values

group_qualifying(qualis) ==
    Collapse(GroupLoop(kQualifying, qualis, 1, <<>>, 0), kQualifying, tQualifying)

group_races(races) ==
    Collapse(GroupLoop(kRace, races, 1, <<>>, 0), kRace, tRace)

-----------------------------------------------------------------------------
(* The grouping pass on its own: a start-time-ordered list of entries is   *)
(* grouped as qualifying and as race entries, and each result is grouped   *)
(* once more, each group standing for one entry with the group's span.     *)

Ticks == 0..MaxTick
\* an entry ends no earlier than it starts
Entry == {e \in [start_dt : Ticks, end_dt : Ticks] : e.start_dt <= e.end_dt}

RECURSIVE SeqsUpTo(_, _)
SeqsUpTo(S, n) ==
    IF n = 0 THEN {<<>>}
    ELSE LET shorter == SeqsUpTo(S, n - 1)
         IN  shorter \cup {Append(s, x) : s \in {t \in shorter : Len(t) = n - 1}, x \in S}

\* the start-time-ordered lists of at most n entries
RECURSIVE StartOrderedLists(_)
StartOrderedLists(n) ==
    IF n = 0 THEN {<<>>}
    ELSE LET shorter == StartOrderedLists(n - 1)
             Follows(t) == {y \in Entry : t = <<>> \/ t[Len(t)].start_dt <= y.start_dt}
         IN  shorter \cup
             UNION {{Append(t, x) : x \in Follows(t)} : t \in {u \in shorter : Len(u) = n - 1}}

AsEntries(groups) ==
    [i \in 1..Len(groups) |-> [start_dt |-> groups[i].start_dt, end_dt |-> groups[i].end_dt]]

GInit ==
    /\ PIdle /\ BIdle /\ RIdle /\ UIdle /\ MIdle
    /\ gPc = "input"
    /\ gInput \in StartOrderedLists(MaxEntries)
    /\ gQuali = <<>>
    /\ gRaces = <<>>
    /\ gReQuali = <<>>
    /\ gReRaces = <<>>

GGroup ==
    /\ gPc = "input"
    /\ gQuali' = group_qualifying(gInput)
    /\ gRaces' = group_races(gInput)
    /\ gPc' = "grouped"
    /\ UNCHANGED <<gInput, gReQuali, gReRaces>>
    /\ UNCHANGED <<pVars, bVars, rVars, uVars, mVars>>

GRegroup ==
    /\ gPc = "grouped"
    /\ gReQuali' = group_qualifying(AsEntries(gQuali))
    /\ gReRaces' = group_races(AsEntries(gRaces))
    /\ gPc' = "regrouped"
    /\ UNCHANGED <<gInput, gQuali, gRaces>>
    /\ UNCHANGED <<pVars, bVars, rVars, uVars, mVars>>

GNext == GGroup \/ GRegroup

SpecGroup == GInit /\ [][GNext]_vars

(* Claims about the grouping pass *)

\* the entries at which the claim says a group opens
Opens(xs) == {i \in 1..Len(xs) : i = 1 \/ xs[i].start_dt - xs[i - 1].end_dt >= Hour}
KthOpen(xs, k) == CHOOSE i \in Opens(xs) : Cardinality({j \in Opens(xs) : j <= i}) = k
Numeral == <<"1", "2", "3", "4", "5", "6", "7", "8", "9">>

GroupedAsClaimed(xs, groups, key) ==
    /\ Len(groups) = Cardinality(Opens(xs))
    /\ \A k \in 1..Len(groups) : groups[k].start_dt = xs[KthOpen(xs, k)].start_dt
    /\ \A k \in 1..(Len(groups) - 1) : groups[k].start_dt <= groups[k + 1].start_dt
    /\ Len(groups) = 1 => groups[1].session_key = key
    /\ Len(groups) > 1 =>
          \A k \in 1..Len(groups) : groups[k].session_key = Append(key, Numeral[k])

\* C3: for a start-time-ordered list the grouping pass opens a group at the
\* first entry and at every entry starting at least one hour after the previous
\* entry's end (exactly one hour splits, less merges); G > 1 groups are keyed
\* qualifying1..qualifyingG (race1..raceG) in time order and a single group is
\* keyed qualifying (race).
C3_GroupsOpenAtHourGaps ==
    gPc # "input" =>
        /\ GroupedAsClaimed(gInput, gQuali, kQualifying)
        /\ GroupedAsClaimed(gInput, gRaces, kRace)

\* C3 witness: three entries, the second less than an hour after the first and
\* the third exactly one hour after the second: two numbered groups.
C3_Witness ==
    /\ gPc = "grouped"
    /\ Len(gInput) = 3
    /\ gInput[2].start_dt - gInput[1].end_dt \in 0..(Hour - 1)
    /\ gInput[3].start_dt - gInput[2].end_dt = Hour
    /\ Len(gQuali) = 2
    /\ gQuali[2].session_key = Append(kQualifying, "2")
    /\ gRaces[1].session_key = Append(kRace, "1")

SameGroups(a, b) ==
    /\ Len(a) = Len(b)
    /\ \A k \in 1..Len(a) :
          /\ a[k].start_dt = b[k].start_dt
          /\ a[k].end_dt = b[k].end_dt
          /\ a[k].session_key = b[k].session_key

\* C4: grouping is idempotent: for a start-time-ordered list of entries with
\* start <= end, grouping the groups again (each group one entry with the
\* group's start and end) gives the same number of groups with the same start
\* times, end times and keys.
C4_GroupingIdempotent ==
    (gPc = "regrouped" /\ \A i \in 1..Len(gInput) : gInput[i].start_dt <= gInput[i].end_dt) =>
        /\ SameGroups(gReQuali, gQuali)
        /\ SameGroups(gReRaces, gRaces)

\* C4 witness: a regrouped list of three well-formed entries in which a merge
\* happened, the merged group's first member ending after its last member.
C4_Witness ==
    /\ gPc = "regrouped"
    /\ Len(gInput) = 3
    /\ \A i \in 1..3 : gInput[i].start_dt <= gInput[i].end_dt
    /\ Len(gQuali) = 2
    /\ gInput[1].end_dt > gInput[2].end_dt
    /\ gQuali[1].start_dt = gInput[1].start_dt
    /\ gQuali[2].start_dt = gInput[3].start_dt
    /\ Len(gReQuali) = 2

\* the entries of the k-th group: from its opening entry up to the next one
Members(xs, k) ==
    {i \in 1..Len(xs) :
        /\ KthOpen(xs, k) <= i
        /\ k < Cardinality(Opens(xs)) => i < KthOpen(xs, k + 1)}

GroupsSpanMembers(xs, groups) ==
    \A k \in 1..Len(groups) :
        /\ groups[k].start_dt = xs[KthOpen(xs, k)].start_dt
        /\ \A i \in Members(xs, k) : xs[i].end_dt <= groups[k].end_dt
        /\ \E i \in Members(xs, k) : xs[i].end_dt = groups[k].end_dt

\* C13: every group starts at its first member's start and ends at the latest
\* end among its members, also when a later member ends before an earlier one.
C13_GroupsSpanMembers ==
    gPc # "input" =>
        /\ GroupsSpanMembers(gInput, gQuali)
        /\ GroupsSpanMembers(gInput, gRaces)


-----------------------------------------------------------------------------
(* helpers.utc_dt_to_str: the instant as ISO-8601 text with a Z suffix.     *)
(* Tick 0 is 2025-03-01T00:00:00Z.                                          *)

TicksPerDay == 48

utc_dt_to_str(t) ==
    <<"2", "0", "2", "5", "-", "0", "3", "-">> \o TwoDigits(1 + (t \div TicksPerDay))
        \o <<"T">> \o TwoDigits((t % TicksPerDay) \div Hour)
        \o <<":">> \o TwoDigits(30 * (t % Hour)) \o <<":", "0", "0", "Z">>

-----------------------------------------------------------------------------
(* clean_sessions, transform_sessions, parse_race_details *)

\* sorted(xs, key=start_dt): stable
RECURSIVE InsertByStart(_, _)
InsertByStart(sorted, x) ==
    IF sorted = <<>> THEN <<x>>
    ELSE IF sorted[Len(sorted)].start_dt <= x.start_dt THEN Append(sorted, x)
    ELSE Append(InsertByStart(SubSeq(sorted, 1, Len(sorted) - 1), x), sorted[Len(sorted)])

\* (mutant) the list is taken in the order the source lists it
AsListed(xs) == xs

RECURSIVE SortedByStart(_)
SortedByStart(xs) ==
    IF xs = <<>> THEN <<>>
    ELSE InsertByStart(SortedByStart(SubSeq(xs, 1, Len(xs) - 1)), xs[Len(xs)])

\* 'quali' in lower_title
IsQuali(lower_title) == Contains(kQuali, lower_title)

\* (mutant) the race test placed before the quali test
ClassifyRaceFirst(title) ==
    LET lower_title == Lower(title)
    IN  IF Contains(kPractice, lower_title) THEN "practice"
        ELSE IF Contains(kWarmup, lower_title) THEN "warmup"
        ELSE IF Contains(kRace, lower_title) THEN "race"
        ELSE IF IsQuali(lower_title) THEN "quali"
        ELSE "other"

\* the if / elif chain of lines 102-116
Classify(title) ==
    LET lower_title == Lower(title)
    IN  IF Contains(kPractice, lower_title) THEN "practice"
        ELSE IF Contains(kWarmup, lower_title) THEN "warmup"
        ELSE IF IsQuali(lower_title) THEN "quali"
        ELSE IF Contains(kRace, lower_title) THEN "race"
        ELSE "other"

WithKey(session, key) ==
    [title |-> session.title, start_dt |-> session.start_dt,
     end_dt |-> session.end_dt, session_key |-> key]

\* str.upper() on the letters
UpperChar(c) ==
    LET up == <<"A", "B", "C", "D", "E", "F", "G", "H", "I", "J", "K", "L", "M",
                "N", "O", "P", "Q", "R", "S", "T", "U", "V", "W", "X", "Y", "Z">>
        lo == <<"a", "b", "c", "d", "e", "f", "g", "h", "i", "j", "k", "l", "m",
                "n", "o", "p", "q", "r", "s", "t", "u", "v", "w", "x", "y", "z">>
    IN  IF \E i \in 1..26 : lo[i] = c THEN up[CHOOSE i \in 1..26 : lo[i] = c] ELSE c

\* a character of a word token: a letter or a digit
IsWordChar(c) ==
    \/ UpperChar(c) # LowerChar(c)
    \/ c \in {"0", "1", "2", "3", "4", "5", "6", "7", "8", "9"}

\* the word tokens of s from position i on, each title-cased, joined with no
\* separator; at_start tells that position i begins a token
RECURSIVE TitleCaseJoinFrom(_, _, _)
TitleCaseJoinFrom(s, i, at_start) ==
    IF i > Len(s) THEN <<>>
    ELSE IF ~IsWordChar(s[i]) THEN TitleCaseJoinFrom(s, i + 1, TRUE)
    ELSE <<IF at_start THEN UpperChar(s[i]) ELSE LowerChar(s[i])>>
             \o TitleCaseJoinFrom(s, i + 1, FALSE)

TitleCaseJoin(s) == TitleCaseJoinFrom(s, 1, TRUE)

\* (mutant) the key of an unrecognised entry is derived from its title's words
FallbackTitleCased(cleaned, session) ==
    Append(cleaned, WithKey(session, TitleCaseJoin(session.title)))

\* (mutant) the unrecognised entries are kept by key: a later one with the
\* same title replaces the earlier one
FallbackByKey(cleaned, session) ==
    IF \E i \in 1..Len(cleaned) : cleaned[i].session_key = session.title
    THEN [i \in 1..Len(cleaned) |->
            IF cleaned[i].session_key = session.title
            THEN WithKey(session, session.title) ELSE cleaned[i]]
    ELSE Append(cleaned, WithKey(session, session.title))

\* lines 115-116: the title itself is the key, and the entry is kept
Fallback(cleaned, session) == Append(cleaned, WithKey(session, session.title))

\* the loop of lines 99-116 from entry i on
RECURSIVE CleanLoop(_, _, _, _, _, _)
CleanLoop(sorted_sessions, i, qualis, races, cleaned, practice_number) ==
    IF i > Len(sorted_sessions)
    THEN [qualis |-> qualis, races |-> races, cleaned |-> cleaned]
    ELSE LET session == sorted_sessions[i]
             kind == Classify(session.title)
         IN  CASE kind = "practice" ->
                    CleanLoop(sorted_sessions, i + 1, qualis, races,
                              Append(cleaned, WithKey(session, kPractice \o Digits(practice_number))),
                              practice_number + 1)
               [] kind = "warmup" ->
                    CleanLoop(sorted_sessions, i + 1, qualis, races,
                              Append(cleaned, WithKey(session, kWarmup)), practice_number)
               [] kind = "quali" ->
                    CleanLoop(sorted_sessions, i + 1, Append(qualis, session), races,
                              cleaned, practice_number)
               [] kind = "race" ->
                    CleanLoop(sorted_sessions, i + 1, qualis, Append(races, session),
                              cleaned, practice_number)
               [] OTHER ->
                    CleanLoop(sorted_sessions, i + 1, qualis, races,
                              Fallback(cleaned, session), practice_number)

clean_sessions(sessions) ==
    LET r == CleanLoop(SortedByStart(sessions), 1, <<>>, <<>>, <<>>, 1)
        withQualis == IF r.qualis # <<>> THEN r.cleaned \o group_qualifying(r.qualis)
                      ELSE r.cleaned
        withRaces == IF r.races # <<>> THEN withQualis \o group_races(r.races)
                     ELSE withQualis
    IN  SortedByStart(withRaces)

\* a dict as the list of its items in insertion order; d.update({k: v})
DictUpdate(d, k, v) ==
    IF \E i \in 1..Len(d) : d[i].key = k
    THEN [i \in 1..Len(d) |-> IF d[i].key = k THEN [key |-> k, val |-> v] ELSE d[i]]
    ELSE Append(d, [key |-> k, val |-> v])

DictKeys(d) == {d[i].key : i \in 1..Len(d)}

RECURSIVE TransformLoop(_, _, _)
TransformLoop(sessions, i, transformed) ==
    IF i > Len(sessions) THEN transformed
    ELSE TransformLoop(sessions, i + 1,
             DictUpdate(transformed, sessions[i].session_key,
                        utc_dt_to_str(sessions[i].start_dt)))

transform_sessions(sessions) == TransformLoop(sessions, 1, <<>>)

\* (mutant) the duplicate check is skipped
NoDuplicateCheck(cleaned_sessions) == FALSE

\* lines 149-150: len(cleaned_sessions) != len(session_keys)
HasDuplicateKeys(cleaned_sessions) ==
    Len(cleaned_sessions) #
        Cardinality({cleaned_sessions[i].session_key : i \in 1..Len(cleaned_sessions)})

\* lines 147-158, after the page is read into the raw sessions of the race
AssembleRace(race_name, cleaned_sessions, is_tbd) ==
    IF HasDuplicateKeys(cleaned_sessions) THEN Raised
    ELSE [raised |-> FALSE, name |-> race_name,
          sessions |-> transform_sessions(cleaned_sessions), tbc |-> is_tbd]

parse_race_details(race_name, sessions, is_tbd) ==
    AssembleRace(race_name, clean_sessions(sessions), is_tbd)

-----------------------------------------------------------------------------
(* One race of the HTML path: its raw session entries are classified and   *)
(* assembled into a race record, or the duplicate-key error is raised.     *)

tPractice1 == <<"P", "r", "a", "c", "t", "i", "c", "e", " ", "1">>
tWarmupUpper == <<"W", "A", "R", "M", "U", "P">>
tQualifications == <<"Q", "u", "a", "l", "i", "f", "i", "c", "a", "t", "i", "o", "n", "s">>
tFanFest == <<"F", "a", "n", " ", "F", "e", "s", "t">>
tPitStop == <<"P", "i", "t", " ", "S", "t", "o", "p">>
Titles == {tPractice1, tWarmupUpper, tQualifying, tQualifications, tRace, tFanFest, tPitStop}

nStPete == <<"S", "t", ".", " ", "P", "e", "t", "e">>

RawSession ==
    {[title |-> ti, start_dt |-> s, end_dt |-> e] :
        ti \in Titles, s \in 0..MaxSessionTick, e \in 0..MaxSessionTick} \
    {x \in [title : Titles, start_dt : 0..MaxSessionTick, end_dt : 0..MaxSessionTick] :
        x.end_dt < x.start_dt}

PInit ==
    /\ GIdle /\ BIdle /\ RIdle /\ UIdle /\ MIdle
    /\ pPc = "page"
    /\ pSessions \in SeqsUpTo(RawSession, MaxSessions)
    /\ pCleaned = <<>>
    /\ pDetails = Raised

\* parse_race_details on a page without a TBD race marker; pCleaned keeps what
\* clean_sessions returned to it
PParse ==
    /\ pPc = "page"
    /\ pCleaned' = clean_sessions(pSessions)
    /\ pDetails' = AssembleRace(nStPete, pCleaned', FALSE)
    /\ pPc' = IF pDetails'.raised THEN "raised" ELSE "returned"
    /\ UNCHANGED pSessions
    /\ UNCHANGED <<gVars, bVars, rVars, uVars, mVars>>

PNext == PParse

SpecParse == PInit /\ [][PNext]_vars

(* Claims about one race of the HTML path *)

SharedKey(cleaned) ==
    \E i, j \in 1..Len(cleaned) : i < j /\ cleaned[i].session_key = cleaned[j].session_key

\* C1: parse_race_details either raises or returns a record whose sessions
\* mapping has one key per classified session, each with that session's start;
\* when two classified sessions share a session_key it raises, and never
\* returns a record in which one entry overwrote the other.
C1_DuplicateKeyRaises ==
    pPc # "page" =>
        /\ SharedKey(pCleaned) => pDetails.raised
        /\ ~pDetails.raised =>
              /\ Len(pDetails.sessions) = Len(pCleaned)
              /\ \A i \in 1..Len(pCleaned) :
                    \E j \in 1..Len(pDetails.sessions) :
                        /\ pDetails.sessions[j].key = pCleaned[i].session_key
                        /\ pDetails.sessions[j].val = utc_dt_to_str(pCleaned[i].start_dt)

\* C1 witness: two warmup entries of one race, and the error raised.
C1_Witness ==
    /\ pPc = "raised"
    /\ Len(pCleaned) = 2
    /\ pCleaned[1].session_key = kWarmup
    /\ pCleaned[2].session_key = kWarmup
    /\ pCleaned[1].start_dt < pCleaned[2].start_dt

NoTitleContains(words) ==
    \A i \in 1..Len(pSessions) : \A w \in words : ~Contains(w, Lower(pSessions[i].title))

StartingAt(xs, start_dt) == Cardinality({i \in 1..Len(xs) : xs[i].start_dt = start_dt})

NothingDropped ==
    /\ Len(pCleaned) = Len(pSessions)
    /\ \A i \in 1..Len(pSessions) :
          StartingAt(pCleaned, pSessions[i].start_dt) = StartingAt(pSessions, pSessions[i].start_dt)

\* C2 as stated: when no title contains practice, warmup, qualifying or race,
\* clean_sessions returns as many sessions as it was given, each input entry
\* once with its own start time.
C2_Original_NoKeywordNothingDropped ==
    (pPc # "page" /\ NoTitleContains({kPractice, kWarmup, kQualifying, kRace}))
        => NothingDropped

\* C2 amended: when no title contains practice, warmup, quali or race,
\* clean_sessions returns as many sessions as it was given, each input entry
\* once with its own start time.
C2_NoKeywordNothingDropped ==
    (pPc # "page" /\ NoTitleContains({kPractice, kWarmup, kQuali, kRace}))
        => NothingDropped

\* C2 witness: two unrecognised entries with the same title, both kept.
C2_Witness ==
    /\ pPc # "page"
    /\ Len(pSessions) = 2
    /\ pSessions[1].title = tFanFest
    /\ pSessions[2].title = tFanFest
    /\ pSessions[1].start_dt > pSessions[2].start_dt
    /\ Len(pCleaned) = 2
    /\ pCleaned[1].start_dt = pSessions[2].start_dt

PracticeKeys(n) == {kPractice \o Digits(k) : k \in 1..n}
KeyedAt(key) == {j \in 1..Len(pCleaned) : pCleaned[j].session_key = key}

\* C16: a race with K practice entries gets exactly the keys practice1 to
\* practiceK, numbered in ascending start order whatever the listed order, and
\* the returned list is sorted by start time.
C16_PracticesNumberedByStart ==
    pPc # "page" =>
        LET K == Cardinality({i \in 1..Len(pSessions) :
                                 Contains(kPractice, Lower(pSessions[i].title))})
        IN  /\ \A key \in PracticeKeys(K) : Cardinality(KeyedAt(key)) = 1
            /\ \A j \in 1..Len(pCleaned) :
                  Contains(kPractice, pCleaned[j].session_key) =>
                      pCleaned[j].session_key \in PracticeKeys(K)
            /\ \A a, b \in 1..K :
                  a < b =>
                      \A i \in KeyedAt(kPractice \o Digits(a)), j \in KeyedAt(kPractice \o Digits(b)) :
                          pCleaned[i].start_dt <= pCleaned[j].start_dt
            /\ \A j \in 1..(Len(pCleaned) - 1) : pCleaned[j].start_dt <= pCleaned[j + 1].start_dt

\* C16 witness: two practices listed latest first; the earlier one is practice1.
C16_Witness ==
    /\ pPc = "returned"
    /\ Len(pSessions) = 2
    /\ pSessions[1].title = tPractice1
    /\ pSessions[2].title = tPractice1
    /\ pSessions[1].start_dt > pSessions[2].start_dt
    /\ pCleaned[1].session_key = kPractice \o <<"1">>
    /\ pCleaned[1].start_dt = pSessions[2].start_dt
    /\ pCleaned[2].session_key = kPractice \o <<"2">>

-----------------------------------------------------------------------------
(* The classification on its own: parse_race_details on a race with one    *)
(* session, whose title is one or two words.                               *)

wPractice == <<"P", "r", "a", "c", "t", "i", "c", "e">>
wFan == <<"F", "a", "n">>
wFest == <<"F", "e", "s", "t">>
wFinal == <<"F", "i", "n", "a", "l">>
Words == {wPractice, tWarmupUpper, tQualifying, tQualifications, tRace, wFan, wFest, wFinal}
ComposedTitles == Words \cup {a \o <<" ">> \o b : a \in Words, b \in Words}

CInit ==
    /\ GIdle /\ BIdle /\ RIdle /\ UIdle /\ MIdle
    /\ pPc = "page"
    /\ pSessions \in {<<[title |-> ti, start_dt |-> 0, end_dt |-> Hour]>> : ti \in ComposedTitles}
    /\ pCleaned = <<>>
    /\ pDetails = Raised

SpecClassify == CInit /\ [][PNext]_vars

(* Claims about the classification *)

\* the key of the first rule that matches, in the order practice, warmup,
\* the qualifying word, race, and the title itself when none matches
KeyOfFirstRule(title, quali_word) ==
    LET l == Lower(title)
    IN  IF Contains(kPractice, l) THEN kPractice \o <<"1">>
        ELSE IF Contains(kWarmup, l) THEN kWarmup
        ELSE IF Contains(quali_word, l) THEN kQualifying
        ELSE IF Contains(kRace, l) THEN kRace
        ELSE title

\* C11 as stated: the single entry of a race is classified by the first rule
\* its title matches in the order practice, warmup, qualifying, race, fallback,
\* and it is a qualifying entry only when its title contains "qualifying".
C11_Original_PriorityWithQualifying ==
    pPc # "page" =>
        /\ Len(pCleaned) = 1
        /\ pCleaned[1].session_key = KeyOfFirstRule(pSessions[1].title, kQualifying)

\* C11 amended: the same priority, with the third rule matching every title
\* that contains "quali".
C11_PriorityWithQuali ==
    pPc # "page" =>
        /\ Len(pCleaned) = 1
        /\ pCleaned[1].session_key = KeyOfFirstRule(pSessions[1].title, kQuali)

\* C11 witness: a title holding both warmup and race becomes the warmup.
C11_Witness ==
    /\ pPc = "returned"
    /\ pSessions[1].title = tWarmupUpper \o <<" ">> \o tRace
    /\ pCleaned[1].session_key = kWarmup

NoKeyword(title) ==
    \A w \in {kPractice, kWarmup, kQuali, kRace} : ~Contains(w, Lower(title))

\* C14 as stated: an entry whose title matches no keyword gets as key the word
\* tokens of its title, title-cased and concatenated ("Fan Fest" gives FanFest).
C14_Original_TitleCasedKey ==
    (pPc # "page" /\ NoKeyword(pSessions[1].title)) =>
        /\ Len(pCleaned) = 1
        /\ pCleaned[1].session_key = TitleCaseJoin(pSessions[1].title)

\* C14 amended: an entry whose title matches no keyword keeps its raw title,
\* unchanged, as its key ("Fan Fest" gives "Fan Fest"), and is never numbered
\* as a practice.
C14_VerbatimTitleKey ==
    (pPc # "page" /\ NoKeyword(pSessions[1].title)) =>
        /\ Len(pCleaned) = 1
        /\ pCleaned[1].session_key = pSessions[1].title
        /\ pCleaned[1].title = pSessions[1].title
        /\ ~Contains(kPractice, pCleaned[1].session_key)

\* C14 witness: the title "Fan Fest" is its own key.
C14_Witness ==
    /\ pPc = "returned"
    /\ pSessions[1].title = wFan \o <<" ">> \o wFest
    /\ pCleaned[1].session_key = <<"F", "a", "n", " ", "F", "e", "s", "t">>
    /\ pDetails.sessions[1].key = <<"F", "a", "n", " ", "F", "e", "s", "t">>

\* the titles of the page that become the warmup, and those no rule recognises
WarmupTitles ==
    {ti \in Titles : ~Contains(kPractice, Lower(ti)) /\ Contains(kWarmup, Lower(ti))}
UnrecognisedTitles == {ti \in Titles : NoKeyword(ti)}

WarmupEntries == {i \in 1..Len(pSessions) : pSessions[i].title \in WarmupTitles}

\* two entries no rule recognises, with the same title
TwinUnrecognised ==
    \E i, j \in 1..Len(pSessions) :
        /\ i < j
        /\ pSessions[i].title = pSessions[j].title
        /\ pSessions[i].title \in UnrecognisedTitles

\* the keys the rules give: practice, warmup, qualifying and race, bare or
\* numbered
CanonicalKeys ==
    {kWarmup, kQualifying, kRace}
        \cup {w \o Digits(k) : w \in {kPractice, kQualifying, kRace}, k \in 1..Len(pSessions)}

\* the i-th classified session is an unrecognised entry (the numbered groups
\* carry no title)
UnrecognisedAt(i) ==
    "title" \in DOMAIN pCleaned[i] /\ pCleaned[i].title \in UnrecognisedTitles

\* C18: on the HTML path the duplicate-key error is raised exactly when the
\* race has two or more warmup entries or two unrecognised entries with the
\* same title; two classified sessions share a key only in these two ways, and
\* the key of an unrecognised entry is none of the canonical keys.
C18_DuplicatesOnlyFromWarmupOrTitles ==
    pPc # "page" =>
        /\ pDetails.raised <=> (Cardinality(WarmupEntries) >= 2 \/ TwinUnrecognised)
        /\ \A i, j \in 1..Len(pCleaned) :
              (i < j /\ pCleaned[i].session_key = pCleaned[j].session_key) =>
                  \/ pCleaned[i].session_key = kWarmup
                  \/ UnrecognisedAt(i) /\ UnrecognisedAt(j)
        /\ \A i \in 1..Len(pCleaned) :
              UnrecognisedAt(i) =>
                  /\ pCleaned[i].session_key = pCleaned[i].title
                  /\ pCleaned[i].session_key \notin CanonicalKeys

\* C18 witness: two entries titled "Pit Stop" raise the error, while the keys
\* of the entries are not canonical ones.
C18_Witness ==
    /\ pPc = "raised"
    /\ Len(pSessions) = 2
    /\ pSessions[1].title = tPitStop
    /\ pSessions[2].title = tPitStop
    /\ pCleaned[1].session_key = tPitStop
    /\ pCleaned[2].session_key = tPitStop

-----------------------------------------------------------------------------
(* build_output *)

Letters ==
    {"a", "b", "c", "d", "e", "f", "g", "h", "i", "j", "k", "l", "m",
     "n", "o", "p", "q", "r", "s", "t", "u", "v", "w", "x", "y", "z",
     "A", "B", "C", "D", "E", "F", "G", "H", "I", "J", "K", "L", "M",
     "N", "O", "P", "Q", "R", "S", "T", "U", "V", "W", "X", "Y", "Z"}
DigitChars == {"0", "1", "2", "3", "4", "5", "6", "7", "8", "9"}

\* x.isalnum() or x == ' '
KeptInSlug(x) == x \in Letters \/ x \in DigitChars \/ x = " "

\* re.sub(r'\s+', '-', s) on a text whose only whitespace is the space
RECURSIVE HyphenateFrom(_, _)
HyphenateFrom(s, i) ==
    IF i > Len(s) THEN <<>>
    ELSE IF s[i] = " "
         THEN IF i > 1 /\ s[i - 1] = " " THEN HyphenateFrom(s, i + 1)
              ELSE <<"-">> \o HyphenateFrom(s, i + 1)
         ELSE <<s[i]>> \o HyphenateFrom(s, i + 1)

\* line 167
Slug(name) == Lower(HyphenateFrom(SelectSeq(name, KeptInSlug), 1))

\* (mutant) enumerate(races) without start=1
RoundFromZero(position) == position - 1

\* enumerate(races, start=1): the round of the race at a 1-based position
RoundOf(position) == position

\* lines 165-171 on one race
Stamp(race, position) ==
    [name |-> race.name, sessions |-> race.sessions, tbc |-> race.tbc,
     round |-> RoundOf(position), slug |-> Slug(race.name), localeKey |-> Slug(race.name),
     longitude |-> 0, latitude |-> 0]

build_output(races) == [races |-> [i \in 1..Len(races) |-> Stamp(races[i], i)]]

-----------------------------------------------------------------------------
(* The schedule builder on its own: a list of race records is stamped.     *)

nIndy500 == <<"I", "n", "d", "y", " ", "5", "0", "0">>
nRoadAmerica == <<"R", "o", "a", "d", " ", " ", "A", "m", "e", "r", "i", "c", "a">>
nMidOhio == <<"M", "i", "d", "-", "O", "h", "i", "o">>
Names == {nStPete, nIndy500, nRoadAmerica, nMidOhio}

RaceDetails ==
    [name : Names, tbc : BOOLEAN,
     sessions : {<<>>, <<[key |-> kRace, val |-> utc_dt_to_str(0)]>>}]

BInit ==
    /\ GIdle /\ PIdle /\ RIdle /\ UIdle /\ MIdle
    /\ bPc = "races"
    /\ bRaces \in SeqsUpTo(RaceDetails, MaxRaces)
    /\ bOutput = [races |-> <<>>]

BBuild ==
    /\ bPc = "races"
    /\ bOutput' = build_output(bRaces)
    /\ bPc' = "built"
    /\ UNCHANGED bRaces
    /\ UNCHANGED <<gVars, pVars, rVars, uVars, mVars>>

BNext == BBuild

SpecBuild == BInit /\ [][BNext]_vars

(* Claims about the schedule builder *)

\* C6: build_output stamps the i-th race with round = i (rounds 1..N, no gaps
\* or repeats), keeps the number and order of the races, and gives each race a
\* slug equal to its localeKey that is the same for equal names at any position.
C6_RoundsAndSlugs ==
    bPc = "built" =>
        LET out == bOutput.races
        IN  /\ Len(out) = Len(bRaces)
            /\ {out[i].round : i \in 1..Len(out)} = 1..Len(bRaces)
            /\ \A i \in 1..Len(out) :
                  /\ out[i].round = i
                  /\ out[i].name = bRaces[i].name
                  /\ out[i].sessions = bRaces[i].sessions
                  /\ out[i].tbc = bRaces[i].tbc
                  /\ out[i].slug = out[i].localeKey
            /\ \A i, j \in 1..Len(out) :
                  out[i].name = out[j].name => out[i].slug = out[j].slug

\* C6 witness: three races, the first and the last with the same name.
C6_Witness ==
    /\ bPc = "built"
    /\ Len(bRaces) = 3
    /\ bRaces[1].name = nStPete
    /\ bRaces[2].name = nRoadAmerica
    /\ bRaces[3].name = nStPete
    /\ bRaces[1].tbc # bRaces[3].tbc
    /\ bOutput.races[3].round = 3
    /\ bOutput.races[3].slug = <<"s", "t", "-", "p", "e", "t", "e">>
    /\ bOutput.races[2].slug = <<"r", "o", "a", "d", "-", "a", "m", "e", "r", "i", "c", "a">>

-----------------------------------------------------------------------------
(* jsondiff.diff as update.py uses it (lines 34 and 78).  A similarity is   *)
(* kept as an integer: a session mapping's in units of 1 / SessOne, a race  *)
(* record's in units of 1 / RaceOne.                                        *)

\* divisible by every number of session keys two mappings can hold together
SimUnit == 60
SessOne == 2 * SimUnit
RaceOne == 16 * SessOne

\* the sum of the values of a function with a finite domain
RECURSIVE Sum(_)
Sum(f) ==
    IF DOMAIN f = {} THEN 0
    ELSE LET x == CHOOSE y \in DOMAIN f : TRUE
         IN  f[x] + Sum([y \in DOMAIN f \ {x} |-> f[y]])

DictGet(d, k) == d[CHOOSE i \in 1..Len(d) : d[i].key = k].val

\* _dict_diff on two session mappings: matched keys weigh 0.5 + 0.5 * s
SessionsSim(a, b) ==
    LET n_tot == Cardinality(DictKeys(a) \cup DictKeys(b))
        weight == [k \in DictKeys(a) \cap DictKeys(b) |->
                     IF DictGet(a, k) = DictGet(b, k) THEN 2 ELSE 1]
    IN  IF n_tot = 0 THEN SessOne
        ELSE (Sum(weight) * SimUnit) \div n_tot

ScalarFields == {"name", "tbc", "round", "slug", "localeKey", "longitude", "latitude"}

\* the keys of the race record's diff: the fields whose values differ
RaceChangedKeys(a, b) ==
    {f \in ScalarFields : a[f] # b[f]}
        \cup (IF SessionsSim(a.sessions, b.sessions) < SessOne THEN {"sessions"} ELSE {})

\* _dict_diff on two race records, which hold the same eight keys
RaceSim(a, b) ==
    LET Weight(same) == IF same THEN 2 * SessOne ELSE SessOne
    IN  Weight(a.name = b.name) + Weight(a.tbc = b.tbc) + Weight(a.round = b.round)
          + Weight(a.slug = b.slug) + Weight(a.localeKey = b.localeKey)
          + Weight(a.longitude = b.longitude) + Weight(a.latitude = b.latitude)
          + SessOne + SessionsSim(a.sessions, b.sessions)

\* _list_diff, row i >= 1 of the table C from cell j on: C[i][j] is the best
\* total similarity of X[1..i] and Y[1..j]; a row is the sequence C[i][0..n]
RECURSIVE LcsRowFrom(_, _, _, _, _, _)
LcsRowFrom(X, Y, i, above, j, row) ==
    IF j > Len(Y) THEN row
    ELSE LET left == row[j]
             up == above[j + 1]
             diag == above[j] + RaceSim(X[i], Y[j])
             m == IF left >= up THEN left ELSE up
         IN  LcsRowFrom(X, Y, i, above, j + 1, Append(row, IF diag >= m THEN diag ELSE m))

\* the rows C[0..i]
RECURSIVE LcsTable(_, _, _)
LcsTable(X, Y, i) ==
    IF i = 0 THEN <<[j \in 1..(Len(Y) + 1) |-> 0]>>
    ELSE LET rows == LcsTable(X, Y, i - 1)
         IN  Append(rows, LcsRowFrom(X, Y, i, rows[i], 1, <<0>>))

\* _list_diff_0, in the order _list_diff reads it (reversed(r)); positions are
\* 1-based here, so that the code's pos is y - 1, and C[i][j] is C[i + 1][j + 1]
RECURSIVE ListOps(_, _, _, _, _)
ListOps(X, Y, C, i, j) ==
    IF i > 0 /\ j > 0 /\ RaceSim(X[i], Y[j]) > 0
          /\ C[i + 1][j + 1] = C[i][j] + RaceSim(X[i], Y[j])
    THEN Append(ListOps(X, Y, C, i - 1, j - 1),
                [sign |-> 0, x |-> i, y |-> j, s |-> RaceSim(X[i], Y[j])])
    ELSE IF j > 0 /\ (i = 0 \/ C[i + 1][j] >= C[i][j + 1])
    THEN Append(ListOps(X, Y, C, i, j - 1), [sign |-> 1, x |-> 0, y |-> j, s |-> 0])
    ELSE IF i > 0
    THEN Append(ListOps(X, Y, C, i - 1, j), [sign |-> -1, x |-> i, y |-> 0, s |-> 0])
    ELSE <<>>

\* what _list_diff hands to emit_list_diff, with the similarity as tot_s / tot_n
ListDiff(X, Y) ==
    LET ops == ListOps(X, Y, LcsTable(X, Y, Len(X)), Len(X), Len(Y))
        Of(sign) == SelectSeq(ops, LAMBDA o : o.sign = sign)
    IN  [changed |-> SelectSeq(ops, LAMBDA o : o.sign = 0 /\ o.s < RaceOne),
         inserted |-> Of(1),
         deleted |-> Of(-1),
         tot_s |-> Sum([k \in 1..Len(ops) |-> ops[k].s]),
         tot_n |-> Len(X) + Len(Of(1))]

\* diff(old, new, syntax='symmetric').get('races', {}): nothing when the lists
\* are equal, the pair [old, new] when their similarity is 0, and otherwise the
\* dict of the changed positions followed by the insert and delete entries
RacesDiff(old, new) ==
    LET d == ListDiff(old.races, new.races)
        marker(kind) == [kind |-> kind, x |-> 0, y |-> 0]
        entry(o) == [kind |-> "changed", x |-> o.x, y |-> o.y]
    IN  IF d.tot_n = 0 \/ d.tot_s = RaceOne * d.tot_n THEN [shape |-> "dict", items |-> <<>>]
        ELSE IF d.tot_s = 0 THEN [shape |-> "list", items |-> <<>>]
        ELSE [shape |-> "dict",
              items |-> [k \in 1..Len(d.changed) |-> entry(d.changed[k])]
                        \o (IF d.inserted # <<>> THEN <<marker("insert")>> ELSE <<>>)
                        \o (IF d.deleted # <<>> THEN <<marker("delete")>> ELSE <<>>)]

\* not diff(old, new): the compact diff is empty exactly when nothing differs
NoDiff(old, new) ==
    LET d == ListDiff(old.races, new.races)
    IN  d.tot_n = 0 \/ d.tot_s = RaceOne * d.tot_n

-----------------------------------------------------------------------------
(* retain_past_deleted_sessions and the tail of update_schedule *)

\* datetime.datetime.now(tz=utc), as a tick
Now == 1

DigitValue(c) == (CHOOSE n \in 1..10 : <<"0", "1", "2", "3", "4", "5", "6", "7", "8", "9">>[n] = c) - 1

\* datetime.fromisoformat on the text utc_dt_to_str writes
fromisoformat(x) ==
    LET Two(i) == 10 * DigitValue(x[i]) + DigitValue(x[i + 1])
    IN  (Two(9) - 1) * TicksPerDay + Two(12) * Hour + (Two(15) \div 30)

Removed(a, b) == DictKeys(a) \ DictKeys(b)

\* the first key of the sessions entry of a race's diff: the pair [old, new]
\* shows as a list, a dict shows its changed keys, then insert, then delete
SessionsDiffHead(a, b) ==
    IF SessionsSim(a, b) = 0 THEN "list"
    ELSE IF \E k \in DictKeys(a) \cap DictKeys(b) : DictGet(a, k) # DictGet(b, k) THEN "changed"
    ELSE IF DictKeys(b) \ DictKeys(a) # {} THEN "insert"
    ELSE "delete"

\* lines 38-43 let the entry pass: the race differs in its sessions only, and
\* the sessions' diff starts with the delete entry
Recognised(a, b) ==
    /\ RaceChangedKeys(a, b) = {"sessions"}
    /\ SessionsDiffHead(a.sessions, b.sessions) = "delete"

\* lines 44-46
AllInPast(a, b) ==
    \A k \in Removed(a.sessions, b.sessions) : fromisoformat(DictGet(a.sessions, k)) < Now

\* the loop of lines 36-50 from item k on: the positions (1-based) to restore
RECURSIVE PastDeletedFrom(_, _, _, _, _)
PastDeletedFrom(old, new, items, k, past_deleted_sessions) ==
    IF k > Len(items) THEN past_deleted_sessions
    ELSE IF items[k].kind # "changed" THEN past_deleted_sessions
    ELSE LET a == old.races[items[k].x]
             b == new.races[items[k].y]
         IN  IF ~Recognised(a, b) THEN past_deleted_sessions
             ELSE PastDeletedFrom(old, new, items, k + 1,
                      IF AllInPast(a, b) THEN Append(past_deleted_sessions, items[k].y)
                      ELSE past_deleted_sessions)

\* the loop of lines 51-54
RECURSIVE RestoreFrom(_, _, _, _)
RestoreFrom(old, new_races, past, k) ==
    IF k > Len(past) THEN [raised |-> FALSE, races |-> new_races]
    ELSE IF past[k] > Len(old.races) THEN Raised
    ELSE RestoreFrom(old, [new_races EXCEPT ![past[k]] = old.races[past[k]]], past, k + 1)

\* races_diff.items() fails on the pair [old, new]
retain_past_deleted_sessions(old_schedule, new_schedule) ==
    LET races_diff == RacesDiff(old_schedule, new_schedule)
    IN  IF races_diff.shape = "list" THEN Raised
        ELSE RestoreFrom(old_schedule, new_schedule.races,
                 PastDeletedFrom(old_schedule, new_schedule, races_diff.items, 1, <<>>), 1)

-----------------------------------------------------------------------------
(* The reconciliation on its own: update_schedule from line 76 on, for a    *)
(* persisted document and a freshly built one.                              *)

PastTick == Now - 1
FutureTick == Now + 1

SessionMaps ==
    LET p(t) == [key |-> kPractice \o <<"1">>, val |-> utc_dt_to_str(t)]
        r(t) == [key |-> kRace, val |-> utc_dt_to_str(t)]
    IN  {<<>>, <<p(PastTick)>>, <<r(PastTick)>>, <<r(FutureTick)>>,
         <<p(PastTick), r(PastTick)>>, <<p(PastTick), r(FutureTick)>>}

\* the race of round i is the i-th race of the season
SeasonNames == <<nStPete, nIndy500, nMidOhio, nRoadAmerica>>

\* the race record of the i-th race of the season with the given sessions
SeasonRace(i, sessions) == [name |-> SeasonNames[i], sessions |-> sessions, tbc |-> FALSE]

\* the documents build_output writes for a season of at most n races
DocumentsOver(maps, n) ==
    {build_output([i \in 1..Len(ss) |-> SeasonRace(i, ss[i])]) : ss \in SeqsUpTo(maps, n)}

Documents(n) == DocumentsOver(SessionMaps, n)

RInit ==
    /\ GIdle /\ PIdle /\ BIdle /\ UIdle /\ MIdle
    /\ rPc = "fetched"
    /\ rOld \in Documents(MaxDocRaces)
    /\ rNew \in Documents(MaxDocRaces)
    /\ rReconciled = Raised
    /\ rReturn = "pending"
    /\ rFile = rOld

\* lines 76-84: reconcile, compare, and write when something differs
RReconcile ==
    /\ rPc = "fetched"
    /\ rReconciled' = retain_past_deleted_sessions(rOld, rNew)
    /\ IF rReconciled'.raised
       THEN rReturn' = "raised" /\ rFile' = rFile
       ELSE IF NoDiff(rOld, [races |-> rReconciled'.races])
            THEN rReturn' = "none" /\ rFile' = rFile
            ELSE rReturn' = "path" /\ rFile' = [races |-> rReconciled'.races]
    /\ rPc' = "done"
    /\ UNCHANGED <<rOld, rNew>>
    /\ UNCHANGED <<gVars, pVars, bVars, uVars, mVars>>

RNext == RReconcile

SpecReconcile == RInit /\ [][RNext]_vars

(* Claims about the reconciliation *)

\* the new race is the old one with some of its session keys missing
LostSessions(a, b) ==
    /\ \A f \in ScalarFields : a[f] = b[f]
    /\ DictKeys(b.sessions) \subseteq DictKeys(a.sessions)
    /\ DictKeys(b.sessions) # DictKeys(a.sessions)
    /\ \A k \in DictKeys(b.sessions) : DictGet(a.sessions, k) = DictGet(b.sessions, k)

SameRace(a, b) ==
    /\ \A f \in ScalarFields : a[f] = b[f]
    /\ DictKeys(a.sessions) = DictKeys(b.sessions)
    /\ \A k \in DictKeys(a.sessions) : DictGet(a.sessions, k) = DictGet(b.sessions, k)

RemovedTicks(a, b) ==
    {fromisoformat(DictGet(a.sessions, k)) : k \in DictKeys(a.sessions) \ DictKeys(b.sessions)}

\* the documents are identical except that race i of the new one lost sessions
OnlyRaceLostSessions(i) ==
    /\ Len(rOld.races) = Len(rNew.races)
    /\ i \in 1..Len(rOld.races)
    /\ LostSessions(rOld.races[i], rNew.races[i])
    /\ \A j \in 1..Len(rOld.races) : j # i => SameRace(rOld.races[j], rNew.races[j])

\* C5: when the new document is the old one except that one race lacks some
\* session keys, update_schedule returns None and leaves the file alone if every
\* removed timestamp is before the current time, and returns for persistence the
\* new document if a removed timestamp is in the future.
C5_PastDeletionSuppressed ==
    rPc = "done" =>
        \A i \in 1..Len(rOld.races) :
            OnlyRaceLostSessions(i) =>
                LET removed == RemovedTicks(rOld.races[i], rNew.races[i])
                IN  /\ (\A t \in removed : t < Now) => (rReturn = "none" /\ rFile = rOld)
                    /\ (\E t \in removed : t > Now) => (rReturn = "path" /\ rFile = rNew)

\* what the spec calls the recognised pattern at race i: the race only lost
\* sessions, all of them in the past
PastDeletionAt(i) ==
    /\ i \in 1..Len(rOld.races)
    /\ LostSessions(rOld.races[i], rNew.races[i])
    /\ \A t \in RemovedTicks(rOld.races[i], rNew.races[i]) : t < Now

\* C10: retain_past_deleted_sessions never raises, whatever the two documents,
\* and every race index whose difference is not the recognised past-deletion
\* pattern holds the freshly fetched race in the result.
C10_ReconciliationNeverRaises ==
    rPc = "done" =>
        /\ ~rReconciled.raised
        /\ \A i \in 1..Len(rNew.races) :
              ~PastDeletionAt(i) => rReconciled.races[i] = rNew.races[i]

\* C12: at every race index where the new race only lost sessions, all of them
\* in the past, the reconciled document holds the old race, whatever the other
\* indices differ in.
C12_EveryPastDeletionRestored ==
    rPc = "done" =>
        \A i \in 1..Len(rNew.races) :
            PastDeletionAt(i) =>
                /\ ~rReconciled.raised
                /\ rReconciled.races[i] = rOld.races[i]

-----------------------------------------------------------------------------
(* One run of sportstimes.main: update_schedule, the schedule builder that  *)
(* the year selects with its fetch of every listed event, the               *)
(* reconciliation, and update_sportstimes.                                  *)

\* what the upstream endpoints do for one event: TRUE when the request and
\* the parsing of its answer succeed, FALSE when either raises
Event == [data : BOOLEAN, matchup : BOOLEAN, page : BOOLEAN]

\* the sessions upstream lists for every event, and those a persisted race holds
UpstreamSessions == <<[key |-> kRace, val |-> utc_dt_to_str(FutureTick)]>>
PersistedSessions ==
    {UpstreamSessions,
     <<[key |-> kPractice \o <<"1">>, val |-> utc_dt_to_str(PastTick)]>> \o UpstreamSessions}

\* a request: the endpoint and the (1-based) event it is for
Call(endpoint, i) == [endpoint |-> endpoint, event |-> i]

\* (mutant) lines 383-387 of get_indycar_schedule as if they were code: the
\* data endpoint first, the matchup endpoint when it raises
FetchWithFallback(ev, i) ==
    IF ev.data THEN [calls |-> <<Call("data", i)>>, ok |-> TRUE]
    ELSE [calls |-> <<Call("data", i), Call("matchup", i)>>, ok |-> ev.matchup]

\* lines 381-389 of get_indycar_schedule: lines 383-387 are comments, the
\* matchup endpoint is the only request
FetchCurrent(ev, i) == [calls |-> <<Call("matchup", i)>>, ok |-> ev.matchup]

\* lines 184-186 of get_indycar_schedule_old: get and parse_race_details
FetchPast(ev, i) == [calls |-> <<Call("page", i)>>, ok |-> ev.page]

\* (mutant) a race that raised is skipped and the loop goes on
SkipFailedRace(races, fetched, i) ==
    [aborted |-> FALSE,
     races |-> IF fetched.ok THEN Append(races, SeasonRace(i, UpstreamSessions)) ELSE races]

\* the exception of a race leaves the loop (re-raised at line 190 of
\* get_indycar_schedule_old, never caught in get_indycar_schedule); otherwise
\* races += [race_details]
AfterRace(races, fetched, i) ==
    [aborted |-> ~fetched.ok,
     races |-> IF fetched.ok THEN Append(races, SeasonRace(i, UpstreamSessions)) ELSE races]

\* the file DEBUG_NEW_SCHEDULE_PATH names, when there is one: a saved output
DebugDocument(events) ==
    build_output([i \in 1..Len(events) |-> SeasonRace(i, UpstreamSessions)])

\* (mutant) the copy is made whatever is at the backup path
BackupAlways(backup, file) ==
    [exists |-> TRUE, doc |-> file.doc, readonly |-> TRUE, copies |-> backup.copies + 1]

\* backup_file, lines 15-28 of update.py: an existing backup that is not
\* writable is left alone; otherwise the file is copied and set read-only
backup_file(backup, file) ==
    IF backup.exists /\ backup.readonly THEN backup
    ELSE [exists |-> TRUE, doc |-> file.doc, readonly |-> TRUE, copies |-> backup.copies + 1]

\* what an earlier run can have left at the backup path: the path is named
\* after the file's modification time, so it holds a copy of this file
EarlierBackups(file) ==
    IF file.exists
    THEN {[exists |-> TRUE, doc |-> file.doc, readonly |-> ro, copies |-> 0] : ro \in BOOLEAN}
    ELSE {}

UInit ==
    /\ GIdle /\ PIdle /\ BIdle /\ RIdle /\ MIdle
    /\ uPc = "main"
    /\ uEvents \in SeqsUpTo(Event, MaxEvents)
    /\ uFile \in {Absent} \cup {[exists |-> TRUE, doc |-> d] : d \in DocumentsOver(PersistedSessions, MaxEvents)}
    /\ uExisted = uFile.exists
    /\ uBackup \in {NoBackup} \cup EarlierBackups(uFile)
    /\ uDebug \in {"unset", "present", "missing"}
    /\ uYear \in {"current", "past"}
    /\ uCaller = "none"
    /\ uBuilder = "none"
    /\ uIdx = 1
    /\ uRaces = <<>>
    /\ uCalls = <<>>
    /\ uOld = [races |-> <<>>]
    /\ uNew = [races |-> <<>>]
    /\ uReturn = "pending"
    /\ uWrites = 0
    /\ uPublished = FALSE

\* main line 183 and update_schedule lines 59-73, up to the choice of the
\* source of the new schedule.  A FileNotFoundError (line 62, or read at line
\* 68 on a missing debug file) is caught at main line 184, which calls
\* get_indycar_schedule itself.
UUpdateSchedule ==
    /\ uPc = "main"
    /\ IF ~uFile.exists
       THEN /\ uReturn' = "FileNotFoundError"
            /\ uPc' = "fetch" /\ uCaller' = "main" /\ uBuilder' = "current"
            /\ UNCHANGED <<uBackup, uOld, uNew>>
       ELSE /\ uBackup' = backup_file(uBackup, uFile)
            /\ uOld' = uFile.doc
            /\ IF uDebug = "present"
               THEN /\ uNew' = DebugDocument(uEvents)
                    /\ uPc' = "reconcile"
                    /\ UNCHANGED <<uReturn, uCaller, uBuilder>>
               ELSE IF uDebug = "missing"
               THEN /\ uReturn' = "FileNotFoundError"
                    /\ uPc' = "fetch" /\ uCaller' = "main" /\ uBuilder' = "current"
                    /\ UNCHANGED uNew
               ELSE /\ uPc' = "fetch" /\ uCaller' = "update_schedule"
                    /\ uBuilder' = (IF uYear = "current" THEN "current" ELSE "past")
                    /\ UNCHANGED <<uReturn, uNew>>
    /\ UNCHANGED <<uEvents, uExisted, uFile, uDebug, uYear, uIdx, uRaces, uCalls, uWrites, uPublished>>
    /\ UNCHANGED <<gVars, pVars, bVars, rVars, mVars>>

\* one turn of the loop over the events, in either builder
UFetchRace ==
    /\ uPc = "fetch"
    /\ uIdx <= Len(uEvents)
    /\ LET fetched == IF uBuilder = "current" THEN FetchCurrent(uEvents[uIdx], uIdx)
                      ELSE FetchPast(uEvents[uIdx], uIdx)
           after == AfterRace(uRaces, fetched, uIdx)
       IN  /\ uCalls' = uCalls \o fetched.calls
           /\ uRaces' = after.races
           /\ IF after.aborted
              THEN /\ uPc' = "fetch_failed"
                   /\ uReturn' = (IF uCaller = "update_schedule" THEN "error" ELSE uReturn)
                   /\ UNCHANGED uIdx
              ELSE /\ uIdx' = uIdx + 1
                   /\ UNCHANGED <<uPc, uReturn>>
    /\ UNCHANGED <<uEvents, uExisted, uFile, uBackup, uDebug, uYear, uCaller, uBuilder, uOld, uNew,
                   uWrites, uPublished>>
    /\ UNCHANGED <<gVars, pVars, bVars, rVars, mVars>>

\* the loop is over: build_output(races) is returned to the caller
UBuild ==
    /\ uPc = "fetch"
    /\ uIdx > Len(uEvents)
    /\ uNew' = build_output(uRaces)
    /\ uPc' = (IF uCaller = "update_schedule" THEN "reconcile" ELSE "write")
    /\ UNCHANGED <<uEvents, uExisted, uFile, uBackup, uDebug, uYear, uCaller, uBuilder, uIdx, uRaces,
                   uCalls, uOld, uReturn, uWrites, uPublished>>
    /\ UNCHANGED <<gVars, pVars, bVars, rVars, mVars>>

\* update_schedule lines 76-84
UReconcile ==
    /\ uPc = "reconcile"
    /\ LET reconciled == retain_past_deleted_sessions(uOld, uNew)
       IN  IF reconciled.raised
           THEN /\ uPc' = "reconcile_failed" /\ uReturn' = "error"
                /\ UNCHANGED <<uNew, uFile, uWrites>>
           ELSE /\ uNew' = [races |-> reconciled.races]
                /\ uPc' = "returned"
                /\ IF NoDiff(uOld, uNew')
                   THEN uReturn' = "none" /\ UNCHANGED <<uFile, uWrites>>
                   ELSE /\ uReturn' = "path"
                        /\ uFile' = [exists |-> TRUE, doc |-> uNew']
                        /\ uWrites' = uWrites + 1
    /\ UNCHANGED <<uEvents, uExisted, uBackup, uDebug, uYear, uCaller, uBuilder, uIdx, uRaces, uCalls,
                   uOld, uPublished>>
    /\ UNCHANGED <<gVars, pVars, bVars, rVars, mVars>>

\* main line 186: write(indycar_schedule, output_path)
UFallbackWrite ==
    /\ uPc = "write"
    /\ uFile' = [exists |-> TRUE, doc |-> uNew]
    /\ uWrites' = uWrites + 1
    /\ uPc' = "returned"
    /\ UNCHANGED <<uEvents, uExisted, uBackup, uDebug, uYear, uCaller, uBuilder, uIdx, uRaces, uCalls,
                   uOld, uNew, uReturn, uPublished>>
    /\ UNCHANGED <<gVars, pVars, bVars, rVars, mVars>>

\* main lines 187-188: output_path is None only when update_schedule returned
\* it; after the except branch it is still the argument
UPublish ==
    /\ uPc = "returned"
    /\ uPublished' = (uReturn # "none")
    /\ uPc' = "done"
    /\ UNCHANGED <<uEvents, uExisted, uFile, uBackup, uDebug, uYear, uCaller, uBuilder, uIdx, uRaces,
                   uCalls, uOld, uNew, uReturn, uWrites>>
    /\ UNCHANGED <<gVars, pVars, bVars, rVars, mVars>>

UNext == UUpdateSchedule \/ UFetchRace \/ UBuild \/ UReconcile \/ UFallbackWrite \/ UPublish

SpecRun == UInit /\ [][UNext]_vars

(* Claims about the run *)

\* the endpoint of a request answers
Healthy(c) == uEvents[c.event][c.endpoint]

\* C7: when the processing of one race raises, the run aborts: the request
\* that failed is the last one made (no later race is processed), the builder
\* returns no document, the persisted file is not written and nothing is
\* published.
C7_FailFast ==
    \A k \in 1..Len(uCalls) :
        ~Healthy(uCalls[k]) =>
            /\ k = Len(uCalls)
            /\ uPc = "fetch_failed"
            /\ uNew = [races |-> <<>>]
            /\ uWrites = 0
            /\ ~uPublished

\* a race raised with another race still to process and a persisted file in
\* place
C7_Witness ==
    /\ uPc = "fetch_failed"
    /\ uCaller = "update_schedule"
    /\ uFile.exists
    /\ uIdx < Len(uEvents)
    /\ ~Healthy(uCalls[Len(uCalls)])

\* C8: update_sportstimes runs only if update_schedule returned a path or no
\* persisted file existed at the start of the run; when update_schedule
\* returns None the file is not written and nothing is published.
C8_PublishOnlyOnChange ==
    /\ uPublished => (uReturn = "path" \/ ~uExisted)
    /\ (uReturn = "none" /\ uPc = "done") => (uWrites = 0 /\ ~uPublished)

\* C9 as stated: a race whose data endpoint fails is retried against the
\* matchup endpoint, and the run fails only if both endpoints fail for a race.
C9_Original_FallbackToMatchup ==
    uBuilder = "current" =>
        /\ \A k \in 1..Len(uCalls) :
              (uCalls[k].endpoint = "matchup" /\ ~uEvents[uCalls[k].event].data) =>
                  (k > 1 /\ uCalls[k - 1] = Call("data", uCalls[k].event))
        /\ uPc = "fetch_failed" => (~uEvents[uIdx].data /\ ~uEvents[uIdx].matchup)

\* C9, amended: get_indycar_schedule asks the matchup endpoint alone.  The data
\* endpoint is never requested, the builder returns exactly when the matchup
\* endpoint answers for every event, and it raises at the first event whose
\* matchup request fails, whatever the data endpoint would have answered.
C9_MatchupOnly ==
    /\ \A k \in 1..Len(uCalls) : uCalls[k].endpoint # "data"
    /\ uBuilder = "current" =>
        /\ uPc \in {"write", "reconcile", "returned", "done"} =>
              \A i \in 1..Len(uEvents) : uEvents[i].matchup
        /\ uPc = "fetch_failed" => ~uEvents[uIdx].matchup
        /\ \A i \in 1..Len(uEvents) :
              (i < uIdx \/ (i = uIdx /\ uPc = "fetch_failed")) =>
                  \E k \in 1..Len(uCalls) : uCalls[k] = Call("matchup", i)

\* the data endpoint is down for a race, and the run completes from the
\* matchup endpoint
C9_Witness ==
    /\ uBuilder = "current"
    /\ uPc = "done"
    /\ uPublished
    /\ \E i \in 1..Len(uEvents) : ~uEvents[i].data /\ uEvents[i].matchup

\* what holds in every state of a run: update_schedule fetches and writes only
\* with the backup in place, writes the whole reconciled document, and does
\* nothing but raise when the file is missing
BackupGuardsRun ==
    /\ (uCaller = "update_schedule" /\ uCalls # <<>>) =>
          (uBackup.exists /\ uBackup.readonly /\ uBackup.doc = uOld)
    /\ uReturn = "path" =>
          /\ uBackup.exists /\ uBackup.readonly /\ uBackup.doc = uOld
          /\ uWrites = 1
          /\ uFile = [exists |-> TRUE, doc |-> uNew]
    /\ ~uExisted =>
          /\ uBackup = NoBackup
          /\ uCaller # "update_schedule"
          /\ uReturn \in {"pending", "FileNotFoundError"}
          /\ uReturn = "pending" => (uCalls = <<>> /\ uWrites = 0)

\* no step writes over a read-only backup
ReadOnlyBackupKept ==
    (uBackup.exists /\ uBackup.readonly) => uBackup' = uBackup

-----------------------------------------------------------------------------
(* get_race_details_from_matchup_url on the answer of the matchup endpoint: *)
(* the schedule items of one event, in the order the source lists them.    *)

\* sorted(sessions.items(), key=lambda x: x[1]): the values are texts of one
\* format, ordered by the digit at their first differing position
TextLeq(a, b) ==
    \/ a = b
    \/ LET i == CHOOSE k \in 1..Len(a) : a[k] # b[k] /\ \A j \in 1..(k - 1) : a[j] = b[j]
       IN  DigitValue(a[i]) < DigitValue(b[i])

RECURSIVE InsertByValue(_, _)
InsertByValue(sorted, x) ==
    IF sorted = <<>> THEN <<x>>
    ELSE IF TextLeq(sorted[Len(sorted)].val, x.val) THEN Append(sorted, x)
    ELSE Append(InsertByValue(SubSeq(sorted, 1, Len(sorted) - 1), x), sorted[Len(sorted)])

RECURSIVE SortedByValue(_)
SortedByValue(d) ==
    IF d = <<>> THEN <<>>
    ELSE InsertByValue(SortedByValue(SubSeq(d, 1, Len(d) - 1)), d[Len(d)])

\* SESSION_ID_MAP.get(session['id'], session['id'])
SessionKeyOf(id_map, id) ==
    IF id \in DictKeys(id_map) THEN DictGet(id_map, id) ELSE id

\* sessions.update({session_key: ...}) of lines 244-247
UpdateSessions(sessions, key, val) == DictUpdate(sessions, key, val)

\* the loop of lines 241-247 from item i on
RECURSIVE ItemsLoop(_, _, _, _)
ItemsLoop(id_map, items, i, sessions) ==
    IF i > Len(items) THEN sessions
    ELSE ItemsLoop(id_map, items, i + 1,
             UpdateSessions(sessions, SessionKeyOf(id_map, items[i].id),
                            utc_dt_to_str(items[i].eventTime)))

\* lines 239-256
get_race_details_from_matchup_url(id_map, title, items) ==
    [raised |-> FALSE, name |-> title,
     sessions |-> SortedByValue(ItemsLoop(id_map, items, 1, <<>>)), tbc |-> FALSE]

ItemIds == {<<"1">>, <<"2">>}
ScheduleItem == [id : ItemIds, eventTime : 0..MaxItemTick]

\* SESSION_ID_MAP is imported from constants, which does not define it: the
\* run is made with no entry and with one entry
IdMaps == {<<>>, <<[key |-> <<"2">>, val |-> kRace]>>}

MInit ==
    /\ GIdle /\ PIdle /\ BIdle /\ RIdle /\ UIdle
    /\ mPc = "answer"
    /\ mIdMap \in IdMaps
    /\ mItems \in SeqsUpTo(ScheduleItem, MaxItems)
    /\ mDetails = Raised

MDetails ==
    /\ mPc = "answer"
    /\ mDetails' = get_race_details_from_matchup_url(mIdMap, nStPete, mItems)
    /\ mPc' = "returned"
    /\ UNCHANGED <<mIdMap, mItems>>
    /\ UNCHANGED <<gVars, pVars, bVars, rVars, uVars>>

MNext == MDetails

SpecMatchup == MInit /\ [][MNext]_vars

(* Claims about the JSON source *)

\* the event times of the items that have the session key
TimesOf(key) ==
    {mItems[i].eventTime : i \in {j \in 1..Len(mItems) : SessionKeyOf(mIdMap, mItems[j].id) = key}}

\* C15: when several schedule items of one race have the same session key, the
\* timestamp stored under that key is the earliest event time of these items,
\* whatever order the source lists them in.
C15_EarliestItemRetained ==
    mPc = "returned" =>
        \A k \in 1..Len(mDetails.sessions) :
            LET times == TimesOf(mDetails.sessions[k].key)
            IN  mDetails.sessions[k].val = utc_dt_to_str(CHOOSE t \in times : \A u \in times : t <= u)

=============================================================================
